---- MODULE Spec2Model ----
(***************************************************************************)
(* Model of v3/internal/fileexplorer/fileexplorer.go: Open(path,           *)
(* selectFile) and the explorerBinArgs strategy functions.                 *)
(*                                                                         *)
(* Strings that the code inspects or rewrites (paths, the value of         *)
(* XDG_CURRENT_DESKTOP, process arguments) are sequences of one-character  *)
(* strings, so that filepath.Dir, strings.TrimSpace, strings.ToUpper and   *)
(* fmt.Sprintf are computed character by character.  Executable names,     *)
(* platform identities and error kinds are opaque strings.                 *)
(***************************************************************************)
EXTENDS Integers, Sequences, FiniteSets, TLC

\* ------------------------------------------------------------------ bounds
MaxPathLen == 3   \* longest path argument handed to Open
MaxPad == 1       \* most whitespace put around XDG_CURRENT_DESKTOP

SeqsUpTo(S, n) == UNION {[1..k -> S] : k \in 0..n}

\* ------------------------------------------------- inputs of one Open call
PathChars == {"/", ".", "a", "f"}
Paths == SeqsUpTo(PathChars, MaxPathLen)

\* runtime.GOOS of the build: the three supported identities and two others
GOOSValues == {"windows", "darwin", "linux", "freebsd", "js"}

\* ------------------------------------------------------- strings.ToUpper
LowerLetters ==
  <<"a", "b", "c", "d", "e", "f", "g", "h", "i", "j", "k", "l", "m",
    "n", "o", "p", "q", "r", "s", "t", "u", "v", "w", "x", "y", "z">>
UpperLetters ==
  <<"A", "B", "C", "D", "E", "F", "G", "H", "I", "J", "K", "L", "M",
    "N", "O", "P", "Q", "R", "S", "T", "U", "V", "W", "X", "Y", "Z">>

ToUpperChar(c) ==
  IF \E i \in 1..26 : LowerLetters[i] = c
  THEN UpperLetters[CHOOSE i \in 1..26 : LowerLetters[i] = c]
  ELSE c

ToUpper(s) == [i \in 1..Len(s) |-> ToUpperChar(s[i])]

\* ------------------------------------------------------ strings.TrimSpace
WhiteSpace == {" ", "\t", "\n", "\r"}

RECURSIVE TrimLeft(_)
TrimLeft(s) ==
  IF s # <<>> /\ Head(s) \in WhiteSpace THEN TrimLeft(Tail(s)) ELSE s

RECURSIVE TrimRight(_)
TrimRight(s) ==
  IF s # <<>> /\ s[Len(s)] \in WhiteSpace
  THEN TrimRight(SubSeq(s, 1, Len(s) - 1))
  ELSE s

TrimSpace(s) == TrimRight(TrimLeft(s))

\* --------------------------------------- os.Getenv("XDG_CURRENT_DESKTOP")
\* env.set says whether the variable is present in the environment
Unset == [set |-> FALSE, value |-> <<>>]
Getenv(env) == IF env.set THEN env.value ELSE <<>>

\* Desktop-environment identifiers the dispatch knows, and some it does not
CINNAMON == <<"C", "I", "N", "N", "A", "M", "O", "N">>
XCINNAMON == <<"X", "-", "C", "I", "N", "N", "A", "M", "O", "N">>
GNOME == <<"G", "N", "O", "M", "E">>
GNOMEFLASHBACK ==
  <<"G", "N", "O", "M", "E", "-", "F", "L", "A", "S", "H", "B", "A", "C", "K">>
GNOMEFLASHBACKGNOME ==
  <<"G", "N", "O", "M", "E", "-", "F", "L", "A", "S", "H", "B", "A", "C", "K",
    ":", "G", "N", "O", "M", "E">>
KDE == <<"K", "D", "E">>
LXQT == <<"L", "X", "Q", "T">>
MATE == <<"M", "A", "T", "E">>
XFCE == <<"X", "F", "C", "E">>
UNITY == <<"U", "N", "I", "T", "Y">>
UBUNTUGNOME == <<"U", "B", "U", "N", "T", "U", ":", "G", "N", "O", "M", "E">>
GNOMECLASSIC ==
  <<"G", "N", "O", "M", "E", " ", "C", "L", "A", "S", "S", "I", "C">>

KnownIds ==
  {CINNAMON, XCINNAMON, GNOME, GNOMEFLASHBACK, GNOMEFLASHBACKGNOME,
   KDE, LXQT, MATE, XFCE}
OtherIds == {<<>>, UNITY, UBUNTUGNOME, GNOMECLASSIC}

\* Spellings of an identifier: upper case and lower case
ToLowerChar(c) ==
  IF \E i \in 1..26 : UpperLetters[i] = c
  THEN LowerLetters[CHOOSE i \in 1..26 : UpperLetters[i] = c]
  ELSE c
Spellings(id) ==
  {id, [i \in 1..Len(id) |-> ToLowerChar(id[i])]}

PadChars == {" "}
Pads == SeqsUpTo(PadChars, MaxPad)

\* Values with other whitespace and mixed case: "  gnome  ", "\tKde\n",
\* "Xfce\r\n"
PaddedGnome == <<" ", " ", "g", "n", "o", "m", "e", " ", " ">>
TabbedKde == <<"\t", "K", "d", "e", "\n">>
CrLfXfce == <<"X", "f", "c", "e", "\r", "\n">>

\* Values XDG_CURRENT_DESKTOP can have when linuxExplorerBinArgs reads it
XdgStrings ==
  {PaddedGnome, TabbedKde, CrLfXfce} \cup
  {pad[1] \o sp \o pad[2] :
     pad \in {pp \in Pads \X Pads : Len(pp[1]) + Len(pp[2]) <= MaxPad},
     sp \in UNION {Spellings(id) : id \in KnownIds \cup OtherIds}}
XdgValues == {Unset} \cup {[set |-> TRUE, value |-> v] : v \in XdgStrings}

\* ------------------------------------------------------- filepath.Clean
\* (unix build: the separator is "/", there is no volume name)
RECURSIVE Backtrack(_, _, _)
\* the backtrack loop of Clean: lower the write index w of buffer buf until
\* the character just above it is a "/" or the floor dotdot is reached
Backtrack(buf, w, dotdot) ==
  IF w > dotdot /\ buf[w + 1] # "/"
  THEN Backtrack(buf, w - 1, dotdot)
  ELSE SubSeq(buf, 1, w)

RECURSIVE ElemEnd(_, _)
\* index after the path element that starts at r
ElemEnd(p, r) ==
  IF r <= Len(p) /\ p[r] # "/" THEN ElemEnd(p, r + 1) ELSE r

RECURSIVE CleanLoop(_, _, _, _, _)
\* r is the 1-based read index, out the buffer, dotdot the backtrack floor
CleanLoop(p, rooted, r, out, dotdot) ==
  LET n == Len(p) IN
  IF r > n THEN out
  ELSE IF p[r] = "/" THEN CleanLoop(p, rooted, r + 1, out, dotdot)
  ELSE IF p[r] = "." /\ (r = n \/ p[r + 1] = "/")
       THEN CleanLoop(p, rooted, r + 1, out, dotdot)
  ELSE IF p[r] = "." /\ p[r + 1] = "." /\ (r + 1 = n \/ p[r + 2] = "/")
       THEN IF Len(out) > dotdot
            THEN CleanLoop(p, rooted, r + 2,
                           Backtrack(out, Len(out) - 1, dotdot),
                           dotdot)
            ELSE IF ~rooted
            THEN LET o2 == (IF Len(out) > 0 THEN Append(out, "/") ELSE out)
                             \o <<".", ".">>
                 IN CleanLoop(p, rooted, r + 2, o2, Len(o2))
            ELSE CleanLoop(p, rooted, r + 2, out, dotdot)
  ELSE LET o2 == IF (rooted /\ Len(out) # 1) \/ (~rooted /\ Len(out) # 0)
                 THEN Append(out, "/") ELSE out
           e == ElemEnd(p, r)
       IN CleanLoop(p, rooted, e, o2 \o SubSeq(p, r, e - 1), dotdot)

Clean(p) ==
  IF p = <<>> THEN <<".">>
  ELSE LET rooted == p[1] = "/"
           out == IF rooted
                  THEN CleanLoop(p, TRUE, 2, <<"/">>, 1)
                  ELSE CleanLoop(p, FALSE, 1, <<>>, 0)
       IN IF out = <<>> THEN <<".">> ELSE out

\* --------------------------------------------------------- filepath.Dir
RECURSIVE LastSep(_, _)
\* greatest i <= k with p[i] = "/", or 0
LastSep(p, k) ==
  IF k >= 1 /\ p[k] # "/" THEN LastSep(p, k - 1) ELSE k

Dir(p) == Clean(SubSeq(p, 1, LastSep(p, Len(p))))

\* ------------------------------------------------------------- os.Stat
\* The filesystem the calls run against: directories /, /a and /a/a,
\* regular files /f, /a/f and /a/a/f, working directory /a.  A node is the
\* sequence of element names from the root.
FsDirs == {<<>>, <<<<"a">>>>, <<<<"a">>, <<"a">>>>}
FsFiles ==
  {<<<<"f">>>>, <<<<"a">>, <<"f">>>>, <<<<"a">>, <<"a">>, <<"f">>>>}
Cwd == <<<<"a">>>>

RECURSIVE Elements(_, _)
\* the non-empty elements of p from index r on
Elements(p, r) ==
  IF r > Len(p) THEN <<>>
  ELSE IF p[r] = "/" THEN Elements(p, r + 1)
  ELSE LET e == ElemEnd(p, r)
       IN <<SubSeq(p, r, e - 1)>> \o Elements(p, e)

ParentNode(node) ==
  IF node = <<>> THEN <<>> ELSE SubSeq(node, 1, Len(node) - 1)

RECURSIVE Walk(_, _)
\* path resolution: node reached from cur along elems, or an errno
Walk(cur, elems) ==
  IF elems = <<>> THEN [err |-> "nil", node |-> cur]
  ELSE IF cur \notin FsDirs THEN [err |-> "ENOTDIR", node |-> cur]
  ELSE LET e == Head(elems) IN
       IF e = <<".">> THEN Walk(cur, Tail(elems))
       ELSE IF e = <<".", ".">> THEN Walk(ParentNode(cur), Tail(elems))
       ELSE IF Append(cur, e) \in FsDirs \cup FsFiles
            THEN Walk(Append(cur, e), Tail(elems))
            ELSE [err |-> "ENOENT", node |-> cur]

Resolve(p) ==
  IF p = <<>> THEN [err |-> "ENOENT", node |-> <<>>]
  ELSE LET w == Walk(IF p[1] = "/" THEN <<>> ELSE Cwd, Elements(p, 1))
       IN IF w.err = "nil" /\ p[Len(p)] = "/" /\ w.node \notin FsDirs
          THEN [err |-> "ENOTDIR", node |-> w.node]
          ELSE w

\* os.Stat(path): err and pathInfo.IsDir(); denied says the filesystem
\* refuses search permission on the way to the path
osStat(p, denied) ==
  LET r == Resolve(p) IN
  IF denied /\ p # <<>> THEN [err |-> "EACCES", isDir |-> FALSE]
  ELSE [err |-> r.err, isDir |-> r.err = "nil" /\ r.node \in FsDirs]

\* ------------------------------------------------ explorerBinArgs strategies
\* Each returns the triple (binary, arguments, error) as a record.
SelectPrefix == <<"/", "s", "e", "l", "e", "c", "t", ",", "\"">>
Quote == <<"\"">>

\* fmt.Sprintf("/select,\"%s\"", path)
SprintfSelect(p) == SelectPrefix \o p \o Quote

\* windowsExplorerBinArgs as it would be with the format /select,%s
windowsExplorerBinArgs_NoQuotes(p, sel) ==
  [bin |-> "explorer",
   args |-> IF sel THEN <<SubSeq(SelectPrefix, 1, 8) \o p>> ELSE <<p>>,
   err |-> "nil"]

windowsExplorerBinArgs(p, sel) ==
  [bin |-> "explorer",
   args |-> IF sel THEN <<SprintfSelect(p)>> ELSE <<p>>,
   err |-> "nil"]

darwinExplorerBinArgs(p, sel) ==
  [bin |-> "open",
   args |-> (IF sel THEN <<<<"-", "R">>>> ELSE <<>>) \o <<p>>,
   err |-> "nil"]

linuxGnomeExplorerBinArgs(p, sel) ==
  [bin |-> "nautilus", args |-> <<IF ~sel THEN Dir(p) ELSE p>>, err |-> "nil"]

\* linuxKdeExplorerBinArgs as it would be if it ignored selectFile
linuxKdeExplorerBinArgs_AlwaysDir(p, sel) ==
  [bin |-> "dolphin", args |-> <<Dir(p)>>, err |-> "nil"]

linuxKdeExplorerBinArgs(p, sel) ==
  [bin |-> "dolphin", args |-> <<IF ~sel THEN Dir(p) ELSE p>>, err |-> "nil"]

linuxXfceExplorerBinArgs(p, sel) ==
  [bin |-> "thunar", args |-> <<IF ~sel THEN Dir(p) ELSE p>>, err |-> "nil"]

linuxMateExplorerBinArgs(p, sel) ==
  [bin |-> "caja", args |-> <<IF ~sel THEN Dir(p) ELSE p>>, err |-> "nil"]

linuxLxqtExplorerBinArgs(p, sel) ==
  [bin |-> "pcmanfm-qt", args |-> <<IF ~sel THEN Dir(p) ELSE p>>, err |-> "nil"]

linuxCinnamonExplorerBinArgs(p, sel) ==
  [bin |-> "nemo", args |-> <<IF ~sel THEN Dir(p) ELSE p>>, err |-> "nil"]

\* linuxFallbackExplorerBinArgs as it would be if it honoured selectFile
linuxFallbackExplorerBinArgs_Selects(p, sel) ==
  [bin |-> "xdg-open", args |-> <<IF ~sel THEN Dir(p) ELSE p>>, err |-> "nil"]

linuxFallbackExplorerBinArgs(p, sel) ==
  [bin |-> "xdg-open", args |-> <<Dir(p)>>, err |-> "nil"]

\* NormalizeDesktop as it would be without strings.TrimSpace
NormalizeDesktop_NoTrim(env) == ToUpper(Getenv(env))

\* strings.ToUpper(strings.TrimSpace(os.Getenv("XDG_CURRENT_DESKTOP")))
NormalizeDesktop(env) == ToUpper(TrimSpace(Getenv(env)))

\* linuxExplorerBinArgs, with the environment it reads as a parameter
linuxExplorerBinArgs(env, p, sel) ==
  LET desktopEnvironment == NormalizeDesktop(env) IN
  IF desktopEnvironment \in {CINNAMON, XCINNAMON}
  THEN linuxCinnamonExplorerBinArgs(p, sel)
  ELSE IF desktopEnvironment
            \in {GNOME, GNOMEFLASHBACK, GNOMEFLASHBACKGNOME}
  THEN linuxGnomeExplorerBinArgs(p, sel)
  ELSE IF desktopEnvironment = KDE THEN linuxKdeExplorerBinArgs(p, sel)
  ELSE IF desktopEnvironment = LXQT THEN linuxLxqtExplorerBinArgs(p, sel)
  ELSE IF desktopEnvironment = MATE THEN linuxMateExplorerBinArgs(p, sel)
  ELSE IF desktopEnvironment = XFCE THEN linuxXfceExplorerBinArgs(p, sel)
  ELSE linuxFallbackExplorerBinArgs(p, sel)

\* the function value held by Open's local explorerBinArgs
CallBinArgs(strat, env, p, sel) ==
  CASE strat = "windows" -> windowsExplorerBinArgs(p, sel)
    [] strat = "darwin" -> darwinExplorerBinArgs(p, sel)
    [] strat = "linux" -> linuxExplorerBinArgs(env, p, sel)

\* ------------------------------------------------- os/exec outcomes
\* cmd.Start(): nil, or the executable is not found on the search path
StartErrors == {"nil", "ErrNotFound"}
\* how the started child ends, as cmd.Wait() sees it
ChildOutcomes == {"exit0", "exit1", "signal", "waitfail"}
\* cmd.Wait(): nil on exit status 0, *exec.ExitError when the child exits
\* non-zero or is killed by a signal, another error when the wait fails
WaitError(outcome) ==
  CASE outcome = "exit0" -> "nil"
    [] outcome \in {"exit1", "signal"} -> "ExitError"
    [] outcome = "waitfail" -> "other"

\* ================================================================ state
VARIABLES
  goos,            \* runtime.GOOS
  pc,              \* position of the call inside Open
  path,            \* argument path
  selectFile,      \* argument selectFile, reassigned at line 17
  reqSelect,       \* selectFile as the caller passed it
  statErr,         \* err of os.Stat
  isDir,           \* pathInfo.IsDir()
  strategy,        \* which function the local explorerBinArgs holds
  ignoreExitCode,  \* local ignoreExitCode
  xdg,             \* XDG_CURRENT_DESKTOP as linuxExplorerBinArgs read it
  explorerBin,     \* local explorerBin
  explorerArgs,    \* local explorerArgs
  startErr,        \* err of cmd.Start()
  child,           \* how the started child ended
  waitErr,         \* err of cmd.Wait()
  started,         \* number of cmd.Start() calls made by this call
  waited,          \* number of cmd.Wait() calls made by this call
  trace,           \* stages this call has run, in order
  result           \* error returned by Open, "pending" while it runs

vars ==
  <<goos, pc, path, selectFile, reqSelect, statErr, isDir, strategy,
    ignoreExitCode, xdg, explorerBin, explorerArgs, startErr, child,
    waitErr, started, waited, trace, result>>

NoEnv == [set |-> FALSE, value |-> <<"-">>]   \* environment not read

Init ==
  /\ goos \in GOOSValues
  /\ pc = "idle"
  /\ path = <<>>
  /\ selectFile = FALSE
  /\ reqSelect = FALSE
  /\ statErr = "none"
  /\ isDir = FALSE
  /\ strategy = "none"
  /\ ignoreExitCode = FALSE
  /\ xdg = NoEnv
  /\ explorerBin = "none"
  /\ explorerArgs = <<>>
  /\ startErr = "none"
  /\ child = "none"
  /\ waitErr = "none"
  /\ started = 0
  /\ waited = 0
  /\ trace = <<>>
  /\ result = "pending"

\* A caller enters Open(p, sel); the locals hold their zero values
Call ==
  /\ pc = "idle"
  /\ \E p \in Paths, sel \in BOOLEAN :
       /\ path' = p
       /\ selectFile' = sel
       /\ reqSelect' = sel
  /\ pc' = "stat"
  /\ UNCHANGED <<goos, statErr, isDir, strategy, ignoreExitCode, xdg,
                 explorerBin, explorerArgs, startErr, waitErr, started,
                 waited, trace, result, child>>

\* Stat as it would be without the downgrade of selectFile for a directory
Stat_KeepsSelection ==
  /\ pc = "stat"
  /\ \E denied \in BOOLEAN :
       LET st == osStat(path, denied) IN
       /\ statErr' = st.err
       /\ isDir' = st.isDir
       /\ IF st.err # "nil"
          THEN /\ result' = "path-access"
               /\ pc' = "done"
               /\ UNCHANGED selectFile
          ELSE /\ selectFile' = selectFile
               /\ pc' = "platform"
               /\ UNCHANGED result
  /\ trace' = Append(trace, "stat")
  /\ UNCHANGED <<goos, path, reqSelect, strategy, ignoreExitCode, xdg,
                 explorerBin, explorerArgs, startErr, waitErr, started,
                 waited, child>>

\* Stat as it would be if the error of os.Stat were dropped
Stat_IgnoresError ==
  /\ pc = "stat"
  /\ \E denied \in BOOLEAN :
       LET st == osStat(path, denied) IN
       /\ statErr' = st.err
       /\ isDir' = st.isDir
       /\ IF FALSE
          THEN /\ result' = "path-access"
               /\ pc' = "done"
               /\ UNCHANGED selectFile
          ELSE /\ selectFile' = (selectFile /\ ~st.isDir)
               /\ pc' = "platform"
               /\ UNCHANGED result
  /\ trace' = Append(trace, "stat")
  /\ UNCHANGED <<goos, path, reqSelect, strategy, ignoreExitCode, xdg,
                 explorerBin, explorerArgs, startErr, waitErr, started,
                 waited, child>>

\* lines 14-18: os.Stat and the downgrade of selectFile
Stat ==
  /\ pc = "stat"
  /\ \E denied \in BOOLEAN :
       LET st == osStat(path, denied) IN
       /\ statErr' = st.err
       /\ isDir' = st.isDir
       /\ IF st.err # "nil"
          THEN /\ result' = "path-access"
               /\ pc' = "done"
               /\ UNCHANGED selectFile
          ELSE /\ selectFile' = (selectFile /\ ~st.isDir)
               /\ pc' = "platform"
               /\ UNCHANGED result
  /\ trace' = Append(trace, "stat")
  /\ UNCHANGED <<goos, path, reqSelect, strategy, ignoreExitCode, xdg,
                 explorerBin, explorerArgs, startErr, waitErr, started,
                 waited, child>>

\* lines 25-31: case "windows"
PlatformWindows ==
  /\ pc = "platform"
  /\ goos = "windows"
  /\ strategy' = "windows"
  /\ ignoreExitCode' = TRUE
  /\ pc' = "binargs"
  /\ trace' = Append(trace, "platform")
  /\ UNCHANGED <<goos, path, selectFile, reqSelect, statErr, isDir, xdg,
                 explorerBin, explorerArgs, startErr, waitErr, started,
                 waited, result, child>>

\* lines 32-33: case "darwin"
PlatformDarwin ==
  /\ pc = "platform"
  /\ goos = "darwin"
  /\ strategy' = "darwin"
  /\ pc' = "binargs"
  /\ trace' = Append(trace, "platform")
  /\ UNCHANGED <<goos, path, selectFile, reqSelect, statErr, isDir,
                 ignoreExitCode, xdg, explorerBin, explorerArgs, startErr,
                 waitErr, started, waited, result, child>>

\* PlatformLinux as it would be if it also disabled the exit code check
PlatformLinux_IgnoresExit ==
  /\ pc = "platform"
  /\ goos = "linux"
  /\ strategy' = "linux"
  /\ ignoreExitCode' = TRUE
  /\ pc' = "binargs"
  /\ trace' = Append(trace, "platform")
  /\ UNCHANGED <<goos, path, selectFile, reqSelect, statErr, isDir,
                 xdg, explorerBin, explorerArgs, startErr,
                 waitErr, started, waited, result, child>>

\* lines 34-35: case "linux"
PlatformLinux ==
  /\ pc = "platform"
  /\ goos = "linux"
  /\ strategy' = "linux"
  /\ pc' = "binargs"
  /\ trace' = Append(trace, "platform")
  /\ UNCHANGED <<goos, path, selectFile, reqSelect, statErr, isDir,
                 ignoreExitCode, xdg, explorerBin, explorerArgs, startErr,
                 waitErr, started, waited, result, child>>

\* PlatformDefault as it would be if unknown platforms took the linux branch
PlatformDefault_UsesLinux ==
  /\ pc = "platform"
  /\ goos \notin {"windows", "darwin", "linux"}
  /\ strategy' = "linux"
  /\ pc' = "binargs"
  /\ trace' = Append(trace, "platform")
  /\ UNCHANGED <<goos, path, selectFile, reqSelect, statErr, isDir, result,
                 ignoreExitCode, xdg, explorerBin, explorerArgs, startErr,
                 waitErr, started, waited, child>>

\* lines 36-37: default
PlatformDefault ==
  /\ pc = "platform"
  /\ goos \notin {"windows", "darwin", "linux"}
  /\ result' = "unsupported"
  /\ pc' = "done"
  /\ trace' = Append(trace, "platform")
  /\ UNCHANGED <<goos, path, selectFile, reqSelect, statErr, isDir, strategy,
                 ignoreExitCode, xdg, explorerBin, explorerArgs, startErr,
                 waitErr, started, waited, child>>

\* lines 40-43: explorerBinArgs(path, selectFile).  Only the linux strategy
\* reads the environment
ComputeBinArgs ==
  /\ pc = "binargs"
  /\ \E env \in (IF strategy = "linux" THEN XdgValues ELSE {NoEnv}) :
       LET r == CallBinArgs(strategy, env, path, selectFile) IN
       /\ xdg' = env
       /\ IF r.err # "nil"
          THEN /\ result' = "binargs"
               /\ pc' = "done"
               /\ UNCHANGED <<explorerBin, explorerArgs>>
          ELSE /\ explorerBin' = r.bin
               /\ explorerArgs' = r.args
               /\ pc' = "start"
               /\ UNCHANGED result
  /\ trace' = Append(trace, "binargs")
  /\ UNCHANGED <<goos, path, selectFile, reqSelect, statErr, isDir, strategy,
                 ignoreExitCode, startErr, waitErr, started, waited, child>>

\* StartProcess as it would be if the error of cmd.Start were dropped
StartProcess_WaitsAnyway ==
  /\ pc = "start"
  /\ \E e \in StartErrors :
       /\ startErr' = e
       /\ IF e # "nil"
          THEN /\ pc' = "wait"
               /\ UNCHANGED result
          ELSE /\ pc' = "wait"
               /\ UNCHANGED result
  /\ started' = started + 1
  /\ trace' = Append(trace, "start")
  /\ UNCHANGED <<goos, path, selectFile, reqSelect, statErr, isDir, strategy,
                 ignoreExitCode, xdg, explorerBin, explorerArgs, waitErr,
                 waited, child>>

\* lines 45-48: exec.Command and cmd.Start
StartProcess ==
  /\ pc = "start"
  /\ \E e \in StartErrors :
       /\ startErr' = e
       /\ IF e # "nil"
          THEN /\ result' = "start"
               /\ pc' = "done"
          ELSE /\ pc' = "wait"
               /\ UNCHANGED result
  /\ started' = started + 1
  /\ trace' = Append(trace, "start")
  /\ UNCHANGED <<goos, path, selectFile, reqSelect, statErr, isDir, strategy,
                 ignoreExitCode, xdg, explorerBin, explorerArgs, waitErr,
                 waited, child>>

\* line 50: cmd.Wait blocks until the child ends
WaitProcess ==
  /\ pc = "wait"
  /\ \E o \in ChildOutcomes :
       /\ child' = o
       /\ waitErr' = WaitError(o)
  /\ waited' = waited + 1
  /\ pc' = "map"
  /\ trace' = Append(trace, "wait")
  /\ UNCHANGED <<goos, path, selectFile, reqSelect, statErr, isDir, strategy,
                 ignoreExitCode, xdg, explorerBin, explorerArgs, startErr,
                 started, result>>

\* MapResult as it would be without the ignoreExitCode workaround
MapResult_HonorsExitCode ==
  /\ pc = "map"
  /\ result' = IF waitErr # "nil"
               THEN IF FALSE
                    THEN "nil"
                    ELSE "exec"
               ELSE "nil"
  /\ pc' = "done"
  /\ trace' = Append(trace, "map")
  /\ UNCHANGED <<goos, path, selectFile, reqSelect, statErr, isDir, strategy,
                 ignoreExitCode, xdg, explorerBin, explorerArgs, startErr,
                 waitErr, started, waited, child>>

\* lines 50-58: the error returned for the outcome of the wait
MapResult ==
  /\ pc = "map"
  /\ result' = IF waitErr # "nil"
               THEN IF waitErr = "ExitError" /\ ignoreExitCode
                    THEN "nil"
                    ELSE "exec"
               ELSE "nil"
  /\ pc' = "done"
  /\ trace' = Append(trace, "map")
  /\ UNCHANGED <<goos, path, selectFile, reqSelect, statErr, isDir, strategy,
                 ignoreExitCode, xdg, explorerBin, explorerArgs, startErr,
                 waitErr, started, waited, child>>

\* The caller takes the returned error; the frame of the call is dropped
Return ==
  /\ pc = "done"
  /\ pc' = "idle"
  /\ path' = <<>>
  /\ selectFile' = FALSE
  /\ reqSelect' = FALSE
  /\ statErr' = "none"
  /\ isDir' = FALSE
  /\ strategy' = "none"
  /\ ignoreExitCode' = FALSE
  /\ xdg' = NoEnv
  /\ explorerBin' = "none"
  /\ explorerArgs' = <<>>
  /\ startErr' = "none"
  /\ child' = "none"
  /\ waitErr' = "none"
  /\ started' = 0
  /\ waited' = 0
  /\ trace' = <<>>
  /\ result' = "pending"
  /\ UNCHANGED goos

Next ==
  \/ Call
  \/ Stat
  \/ PlatformWindows
  \/ PlatformDarwin
  \/ PlatformLinux
  \/ PlatformDefault
  \/ ComputeBinArgs
  \/ StartProcess
  \/ WaitProcess
  \/ MapResult
  \/ Return

Spec == Init /\ [][Next]_vars

\* ================================================================ claims

\* C1: whenever os.Stat fails (ENOENT, ENOTDIR, EACCES), Open returns the
\* path-access error and nothing after the stat stage has run: no platform
\* resolution, no launch spec, no environment read, no process start or
\* wait, on every platform identity; and a path that does not resolve in
\* the filesystem always makes the stat fail.
C1_StatFailureStopsCall ==
  /\ (statErr \notin {"none", "nil"}) =>
       /\ pc = "done"
       /\ result = "path-access"
       /\ trace = <<"stat">>
       /\ strategy = "none"
       /\ xdg = NoEnv
       /\ explorerBin = "none"
       /\ explorerArgs = <<>>
       /\ started = 0
       /\ waited = 0
  /\ (pc \notin {"idle", "stat"} /\ Resolve(path).err # "nil") =>
       statErr \notin {"none", "nil"}

C1_Witness ==
  /\ goos = "freebsd"
  /\ statErr = "ENOENT"
  /\ pc = "done"
  /\ result = "path-access"

\* C2: after a successful stat the selection intent is false for a
\* directory and the caller's selectFile for a non-directory, and the
\* launch spec the call computed is the one the strategy gives for that
\* intent, so for a directory it is the spec of selectFile = false.
C2_DirectoryDowngradesSelection ==
  (statErr = "nil") =>
    /\ isDir = (Resolve(path).node \in FsDirs)
    /\ selectFile = (IF isDir THEN FALSE ELSE reqSelect)
    /\ (explorerBin # "none") =>
         LET r == CallBinArgs(strategy, xdg, path,
                              IF isDir THEN FALSE ELSE reqSelect)
         IN /\ explorerBin = r.bin
            /\ explorerArgs = r.args

C2_Witness ==
  /\ statErr = "nil"
  /\ isDir
  /\ reqSelect
  /\ explorerBin = "explorer"
  /\ explorerArgs = <<path>>

\* C3: on windows a child that exits with a non-zero status makes Open
\* return nil; a failed cmd.Start makes Open return the process-start error
\* with no child; a wait failure that is not an exit status is returned as
\* the process-execution error.
C3_WindowsIgnoresExitStatus ==
  (goos = "windows" /\ pc = "done") =>
    /\ (child = "exit1") => result = "nil"
    /\ (startErr = "ErrNotFound") =>
         (result = "start" /\ child = "none")
    /\ (child = "waitfail") => result = "exec"

C3_Witness ==
  /\ goos = "windows"
  /\ pc = "done"
  /\ child = "exit1"
  /\ result = "nil"

\* C4: on a platform identity other than windows, darwin and linux no
\* strategy is chosen, no launch spec is computed and no process is started
\* or waited for, and a call whose stat succeeded returns the
\* unsupported-platform error right after the platform stage.
C4_UnsupportedPlatform ==
  (goos \notin {"windows", "darwin", "linux"}) =>
    /\ strategy = "none"
    /\ explorerBin = "none"
    /\ explorerArgs = <<>>
    /\ started = 0
    /\ waited = 0
    /\ (pc = "done" /\ statErr = "nil") =>
         (result = "unsupported" /\ trace = <<"stat", "platform">>)

C4_Witness ==
  /\ goos = "js"
  /\ statErr = "nil"
  /\ pc = "done"
  /\ result = "unsupported"

\* C5: on linux the executable is decided by the value of
\* XDG_CURRENT_DESKTOP read without its surrounding whitespace and without
\* regard to letter case: CINNAMON, X-CINNAMON -> nemo; GNOME,
\* GNOME-FLASHBACK, GNOME-FLASHBACK:GNOME -> nautilus; KDE -> dolphin;
\* LXQT -> pcmanfm-qt; MATE -> caja; XFCE -> thunar; anything else, the
\* empty and the unset value included -> xdg-open.  "  gnome  " gives
\* nautilus.
C5_DesktopEnvironmentTable ==
  LET raw == xdg.value
      n == Len(raw)
      \* raw is id between two runs of whitespace, letters in either case
      Names(id) ==
        /\ xdg.set
        /\ \E i \in 0..n :
             /\ i + Len(id) <= n
             /\ \A k \in 1..i : raw[k] \in WhiteSpace
             /\ \A k \in (i + Len(id) + 1)..n : raw[k] \in WhiteSpace
             /\ \A k \in 1..Len(id) :
                  \/ raw[i + k] = id[k]
                  \/ \E l \in 1..26 : /\ LowerLetters[l] = raw[i + k]
                                      /\ UpperLetters[l] = id[k]
      expected ==
        IF Names(CINNAMON) \/ Names(XCINNAMON) THEN "nemo"
        ELSE IF \/ Names(GNOME)
                \/ Names(GNOMEFLASHBACK)
                \/ Names(GNOMEFLASHBACKGNOME) THEN "nautilus"
        ELSE IF Names(KDE) THEN "dolphin"
        ELSE IF Names(LXQT) THEN "pcmanfm-qt"
        ELSE IF Names(MATE) THEN "caja"
        ELSE IF Names(XFCE) THEN "thunar"
        ELSE "xdg-open"
  IN (strategy = "linux" /\ explorerBin # "none") =>
       /\ explorerBin = expected
       /\ (xdg = [set |-> TRUE, value |-> PaddedGnome]) =>
            explorerBin = "nautilus"
       /\ (xdg = Unset \/ xdg = [set |-> TRUE, value |-> <<>>]) =>
            explorerBin = "xdg-open"

C5_Witness ==
  /\ strategy = "linux"
  /\ xdg = [set |-> TRUE, value |-> PaddedGnome]
  /\ explorerBin = "nautilus"

\* C6 as stated: for the six named desktop-environment strategies the
\* argument list has one element; with the effective selection intent false
\* it is the directory that contains what the input path names (the parent
\* of the directory when the path names a directory); with the intent true
\* it is the input path.
C6_ArgumentIsContainingDirectory ==
  (explorerBin
     \in {"nemo", "nautilus", "dolphin", "pcmanfm-qt", "caja", "thunar"}) =>
    /\ Len(explorerArgs) = 1
    /\ (~selectFile) =>
         /\ Resolve(explorerArgs[1]).err = "nil"
         /\ Resolve(explorerArgs[1]).node = ParentNode(Resolve(path).node)
    /\ selectFile => explorerArgs[1] = path

\* C6 amended: for the six named strategies the argument list has one
\* element; with the effective selection intent false (always so for a
\* directory) it is filepath.Dir of the input path, the cleaned path without
\* its last element; with the intent true it is the input path.  The
\* argument names the containing directory (the parent, for a directory)
\* when the path ends in the name of the target, that is in an element other
\* than the empty one, "." and "..".
C6_ArgumentIsLexicalDir ==
  LET last == SubSeq(path, LastSep(path, Len(path)) + 1, Len(path)) IN
  (explorerBin
     \in {"nemo", "nautilus", "dolphin", "pcmanfm-qt", "caja", "thunar"}) =>
    /\ Len(explorerArgs) = 1
    /\ isDir => ~selectFile
    /\ (~selectFile) => explorerArgs[1] = Dir(path)
    /\ selectFile => explorerArgs[1] = path
    /\ (~selectFile /\ last \notin {<<>>, <<".">>, <<".", ".">>}) =>
         /\ Resolve(explorerArgs[1]).err = "nil"
         /\ Resolve(explorerArgs[1]).node = ParentNode(Resolve(path).node)

C6_Witness ==
  /\ explorerBin = "dolphin"
  /\ isDir
  /\ reqSelect
  /\ path = <<"/", "a", "/">>
  /\ explorerArgs = <<<<"/", "a">>>>

C8_WindowsDarwinPassPath ==
  (explorerBin # "none") =>
    /\ (strategy = "windows") =>
         /\ explorerBin = "explorer"
         /\ Len(explorerArgs) = 1
         /\ explorerArgs[1] =
              IF selectFile
              THEN <<"/", "s", "e", "l", "e", "c", "t", ",", "\"">>
                     \o path \o <<"\"">>
              ELSE path
    /\ (strategy = "darwin") =>
         /\ explorerBin = "open"
         /\ explorerArgs =
              IF selectFile THEN <<<<"-", "R">>, path>> ELSE <<path>>

C8_Witness ==
  /\ strategy = "windows"
  /\ selectFile
  /\ path = <<"/", "f">>
  /\ explorerBin = "explorer"
  /\ explorerArgs =
       <<<<"/", "s", "e", "l", "e", "c", "t", ",", "\"", "/", "f", "\"">>>>

\* C9: the stages of a call run in the order stat, platform, binargs,
\* start, wait, map, each at most once; cmd.Start is called at most once and
\* cmd.Wait only after a cmd.Start that returned nil; a failed cmd.Start
\* ends the call with the process-start error and no wait.
C9_StagesInOrder ==
  LET Stages == <<"stat", "platform", "binargs", "start", "wait", "map">> IN
  /\ Len(trace) <= Len(Stages)
  /\ trace = SubSeq(Stages, 1, Len(trace))
  /\ started = Cardinality({i \in 1..Len(trace) : trace[i] = "start"})
  /\ waited = Cardinality({i \in 1..Len(trace) : trace[i] = "wait"})
  /\ (waited = 1) => (started = 1 /\ startErr = "nil")
  /\ (startErr = "ErrNotFound") =>
       /\ pc = "done"
       /\ result = "start"
       /\ waited = 0
       /\ child = "none"
       /\ trace = SubSeq(Stages, 1, 4)

C9_Witness ==
  /\ startErr = "ErrNotFound"
  /\ started = 1
  /\ waited = 0
  /\ result = "start"

\* C10: a finished call returned nil exactly when its process was started
\* and the wait returned nil, or returned an exit-status error with
\* ignoreExitCode set; ignoreExitCode is set on windows only, so on darwin
\* and linux a child exiting non-zero gives the process-execution error.
C10_SuccessIffCleanExitOrIgnored ==
  /\ ignoreExitCode => goos = "windows"
  /\ (pc = "done") =>
       ((result = "nil") <=>
          /\ started = 1
          /\ startErr = "nil"
          /\ \/ waitErr = "nil"
             \/ (waitErr = "ExitError" /\ ignoreExitCode))
  /\ (pc = "done" /\ goos \in {"darwin", "linux"} /\ child = "exit1") =>
       result = "exec"

C10_Witness ==
  /\ goos = "linux"
  /\ pc = "done"
  /\ child = "exit1"
  /\ result = "exec"

====
